---- MODULE Spec2Model ----
(***************************************************************************)
(* Model of ffxl.py: the FeatureFlagConfig container and its evaluation    *)
(* operations, and the module-level functions on the global configuration. *)
(*                                                                         *)
(* Python values are modelled as follows.                                  *)
(*   None            [kind |-> "None"]                                     *)
(*   dict (ordered)  a sequence of <<key, value>> pairs with unique keys,  *)
(*                   in insertion order                                    *)
(*   feature entry   a function whose DOMAIN is the set of keys present    *)
(*   list            a sequence                                            *)
(*   a call result   [exc |-> "", val |-> v, out |-> printed lines] or     *)
(*                   [exc |-> "TypeError", out |-> printed lines]          *)
(***************************************************************************)
EXTENDS Integers, Sequences, FiniteSets, TLC

VARIABLES config, dev_mode, call, ret, printed, first, global_config, run, hist

vars == <<config, dev_mode, call, ret, printed, first, global_config, run, hist>>

\* the module-level state: _global_config, the position of a module-level
\* call, and the record of the loads made so far
module_vars == <<global_config, run, hist>>

----------------------------------------------------------------------------
(* Bounds and input sets *)

MaxNames == 2

DefinedNames == {"a", "b"}
FeatureNames == DefinedNames \cup {"c"}
UserIds == {"u1", "u2"}
EnvValues == {"", "true", "1", "yes", "TRUE", "Yes", "false", "0"}

PyNone == [kind |-> "None"]
NoneId == "<None>"
EmptyDict == <<>>

----------------------------------------------------------------------------
(* Python built-ins used by the code *)

\* str.lower() on the strings of EnvValues
Lower(s) ==
    CASE s = "TRUE" -> "true"
      [] s = "Yes"  -> "yes"
      [] OTHER      -> s

\* key in d
HasKey(d, k) == \E i \in 1..Len(d) : d[i][1] = k

\* d[k] for a key that is present
Lookup(d, k) == d[CHOOSE i \in 1..Len(d) : d[i][1] = k][2]

\* list(d.keys())
Keys(d) == [i \in 1..Len(d) |-> d[i][1]]

\* d[k] = v: an existing key keeps its position, a new key is appended
DictSet(d, k, v) ==
    IF HasKey(d, k)
    THEN [i \in 1..Len(d) |-> IF d[i][1] = k THEN <<k, v>> ELSE d[i]]
    ELSE Append(d, <<k, v>>)

\* x in lst
InList(x, lst) == \E i \in 1..Len(lst) : lst[i] = x

\* bool(lst) replaced by "lst is not None"
Truthy_NotNone(lst) == TRUE

\* bool(lst) for a list
Truthy(lst) == Len(lst) > 0

Ok(v, o) == [exc |-> "", val |-> v, out |-> o]
Raise(e, o) == [exc |-> e, out |-> o]

----------------------------------------------------------------------------
(* class FeatureFlagConfig *)

\* __init__: _dev_mode from the FFXL_DEV_MODE environment variable
DevModeOf(e) == Lower(e) \in {"true", "1", "yes"}

\* _log
Log(self, message) == IF self.dev_mode THEN <<message>> ELSE <<>>

\* self._config.get('features', {})
FeaturesOf(cfg) ==
    IF HasKey(cfg.d, "features") THEN Lookup(cfg.d, "features")
    ELSE [kind |-> "dict", d |-> EmptyDict]

\* self._config['features'] in place of self._config.get('features', {})
feature_exists_Subscript(self, feature_name) ==
    IF self.config.kind = "None" THEN Raise("TypeError", <<>>)
    ELSE IF ~HasKey(self.config.d, "features") THEN Raise("KeyError", <<>>)
    ELSE IF FeaturesOf(self.config).kind = "None" THEN Raise("TypeError", <<>>)
    ELSE Ok(HasKey(FeaturesOf(self.config).d, feature_name), <<>>)

feature_exists(self, feature_name) ==
    IF self.config.kind = "None" THEN Raise("AttributeError", <<>>)
    ELSE IF FeaturesOf(self.config).kind = "None" THEN Raise("TypeError", <<>>)
    ELSE Ok(HasKey(FeaturesOf(self.config).d, feature_name), <<>>)

\* sorted(...) in place of list(...)
get_all_feature_names_Sorted(self) ==
    IF self.config.kind = "None" THEN Raise("AttributeError", <<>>)
    ELSE IF FeaturesOf(self.config).kind = "None" THEN Raise("AttributeError", <<>>)
    ELSE LET ks == Keys(FeaturesOf(self.config).d)
         IN Ok(IF Len(ks) = 2 /\ ks[1] = "b" /\ ks[2] = "a" THEN <<"a", "b">> ELSE ks, <<>>)

get_all_feature_names(self) ==
    IF self.config.kind = "None" THEN Raise("AttributeError", <<>>)
    ELSE IF FeaturesOf(self.config).kind = "None" THEN Raise("AttributeError", <<>>)
    ELSE Ok(Keys(FeaturesOf(self.config).d), <<>>)

get_feature_config(self, feature_name) ==
    IF self.config.kind = "None" THEN Raise("AttributeError", <<>>)
    ELSE IF FeaturesOf(self.config).kind = "None" THEN Raise("AttributeError", <<>>)
    ELSE IF HasKey(FeaturesOf(self.config).d, feature_name)
         THEN Ok(Lookup(FeaturesOf(self.config).d, feature_name), <<>>)
         ELSE Ok(PyNone, <<>>)

\* bool(user)
UserTruthy(user) ==
    CASE user.kind = "None" -> FALSE
      [] user.kind = "User" -> TRUE
      [] user.kind = "dict" -> DOMAIN user.d # {}

\* the dict form of a user is not recognised
ExtractUserId_ObjectOnly(user) ==
    IF UserTruthy(user) /\ user.kind = "User" THEN user.user_id ELSE NoneId

\* the user_id extracted from a User object or a dict
ExtractUserId(user) ==
    IF UserTruthy(user)
    THEN IF user.kind = "User" THEN user.user_id
         ELSE IF user.kind = "dict" /\ "user_id" \in DOMAIN user.d THEN user.d.user_id
         ELSE NoneId
    ELSE NoneId

\* development mode switches every globally flagged feature on
is_feature_enabled_DevOn(self, feature_name, user) ==
    LET exists == feature_exists(self, feature_name) IN
    IF exists.exc # "" THEN exists
    ELSE IF ~exists.val
    THEN Ok(FALSE, Log(self, [kind |-> "does_not_exist", feature |-> feature_name]))
    ELSE
      LET feature == Lookup(Lookup(self.config.d, "features").d, feature_name)
          user_id == ExtractUserId(user)
      IN IF "onlyForUserIds" \in DOMAIN feature /\ Truthy(feature.onlyForUserIds)
         THEN LET is_enabled == InList(user_id, feature.onlyForUserIds)
              IN Ok(is_enabled, Log(self, [kind |-> "user_specific", feature |-> feature_name,
                                           is_enabled |-> is_enabled, user_id |-> user_id]))
         ELSE LET is_enabled == self.dev_mode
                                \/ (IF "enabled" \in DOMAIN feature THEN feature.enabled ELSE FALSE)
              IN Ok(is_enabled, Log(self, [kind |-> "global", feature |-> feature_name,
                                           is_enabled |-> is_enabled]))

is_feature_enabled(self, feature_name, user) ==
    LET exists == feature_exists(self, feature_name) IN
    IF exists.exc # "" THEN exists
    ELSE IF ~exists.val
    THEN Ok(FALSE, Log(self, [kind |-> "does_not_exist", feature |-> feature_name]))
    ELSE
      LET feature == Lookup(Lookup(self.config.d, "features").d, feature_name)
          user_id == ExtractUserId(user)
      IN IF "onlyForUserIds" \in DOMAIN feature /\ Truthy(feature.onlyForUserIds)
         THEN LET is_enabled == InList(user_id, feature.onlyForUserIds)
              IN Ok(is_enabled, Log(self, [kind |-> "user_specific", feature |-> feature_name,
                                           is_enabled |-> is_enabled, user_id |-> user_id]))
         ELSE LET is_enabled == IF "enabled" \in DOMAIN feature THEN feature.enabled ELSE FALSE
              IN Ok(is_enabled, Log(self, [kind |-> "global", feature |-> feature_name,
                                           is_enabled |-> is_enabled]))

\* the loop returns the first name's result
AnyFrom_FirstOnly(self, feature_names, user, i) ==
    IF i > Len(feature_names) THEN Ok(FALSE, <<>>)
    ELSE is_feature_enabled(self, feature_names[i], user)

\* any(self.is_feature_enabled(name, user) for name in feature_names), from index i
RECURSIVE AnyFrom(_, _, _, _)
AnyFrom(self, feature_names, user, i) ==
    IF i > Len(feature_names) THEN Ok(FALSE, <<>>)
    ELSE LET r == is_feature_enabled(self, feature_names[i], user) IN
         IF r.exc # "" THEN r
         ELSE IF r.val THEN Ok(TRUE, r.out)
         ELSE LET rest == AnyFrom(self, feature_names, user, i + 1)
              IN [rest EXCEPT !.out = r.out \o @]

is_any_feature_enabled(self, feature_names, user) == AnyFrom(self, feature_names, user, 1)

\* all(self.is_feature_enabled(name, user) for name in feature_names), from index i
RECURSIVE AllFrom(_, _, _, _)
AllFrom(self, feature_names, user, i) ==
    IF i > Len(feature_names) THEN Ok(TRUE, <<>>)
    ELSE LET r == is_feature_enabled(self, feature_names[i], user) IN
         IF r.exc # "" THEN r
         ELSE IF ~r.val THEN Ok(FALSE, r.out)
         ELSE LET rest == AllFrom(self, feature_names, user, i + 1)
              IN [rest EXCEPT !.out = r.out \o @]

are_all_features_enabled(self, feature_names, user) == AllFrom(self, feature_names, user, 1)

\* [name for name in names if self.is_feature_enabled(name, user)], from index i
RECURSIVE EnabledFrom(_, _, _, _)
EnabledFrom(self, names, user, i) ==
    IF i > Len(names) THEN Ok(<<>>, <<>>)
    ELSE LET r == is_feature_enabled(self, names[i], user) IN
         IF r.exc # "" THEN r
         ELSE LET rest == EnabledFrom(self, names, user, i + 1) IN
              IF rest.exc # "" THEN [rest EXCEPT !.out = r.out \o @]
              ELSE Ok(IF r.val THEN <<names[i]>> \o rest.val ELSE rest.val, r.out \o rest.out)

get_enabled_features(self, user) ==
    LET names == get_all_feature_names(self) IN
    IF names.exc # "" THEN names
    ELSE EnabledFrom(self, names.val, user, 1)

\* {name: self.is_feature_enabled(name, user) for name in feature_names},
\* the first n names processed
RECURSIVE FlagsUpTo(_, _, _, _)
FlagsUpTo(self, feature_names, user, n) ==
    IF n = 0 THEN Ok(EmptyDict, <<>>)
    ELSE LET before == FlagsUpTo(self, feature_names, user, n - 1) IN
         IF before.exc # "" THEN before
         ELSE LET r == is_feature_enabled(self, feature_names[n], user) IN
              IF r.exc # "" THEN Raise(r.exc, before.out \o r.out)
              ELSE Ok(DictSet(before.val, feature_names[n], r.val), before.out \o r.out)

\* the user is not passed on: self.is_feature_enabled(name)
get_feature_flags_NoUser(self, feature_names, user) ==
    FlagsUpTo(self, feature_names, PyNone, Len(feature_names))

get_feature_flags(self, feature_names, user) ==
    FlagsUpTo(self, feature_names, user, Len(feature_names))

----------------------------------------------------------------------------
(* Configurations and callers' inputs *)

Opt(k, vals) == {<<>>} \cup {k :> v : v \in vals}

\* every combination of the four optional keys of a feature entry
FeatureDefs ==
    {e @@ o @@ v @@ r :
        e \in Opt("enabled", BOOLEAN),
        o \in Opt("onlyForUserIds", {<<>>, <<"u1">>}),
        v \in Opt("environments", {<<"staging", "production">>}),
        r \in Opt("rollout", {[percentage |-> 0], [percentage |-> 100]})}

\* entries of the configurations that define two features
PlainDefs ==
    {<<>>, [enabled |-> TRUE], [enabled |-> FALSE], [onlyForUserIds |-> <<"u1">>]}

\* the features mapping: no feature, feature "a" with any entry, or both
\* defined names in either order
FeatureMaps ==
    {EmptyDict}
    \cup {<< <<"a", f>> >> : f \in FeatureDefs}
    \cup {<< <<p[1], f>>, <<p[2], g>> >> :
             p \in {q \in DefinedNames \X DefinedNames : q[1] # q[2]},
             f \in PlainDefs, g \in PlainDefs}

PyDict(d) == [kind |-> "dict", d |-> d]

Configs ==
    {PyNone, PyDict(EmptyDict), PyDict(<< <<"features", PyNone>> >>)}
    \cup {PyDict(<< <<"features", PyDict(m)>> >>) : m \in FeatureMaps}

Users ==
    {PyNone}
    \cup {[kind |-> "User", user_id |-> u] : u \in UserIds}
    \cup {[kind |-> "dict", d |-> d] : d \in {<<>>, [user_id |-> "u1"], [environment |-> "dev"]}}

NameSeqs == UNION {[1..n -> FeatureNames] : n \in 0..MaxNames}

Idle == [op |-> "idle"]
NoRet == [exc |-> "", out |-> <<>>]
NoFirst == [op |-> "none"]

\* no module-level call, and no load made yet.  hist records the loads:
\* last_good, the configuration the most recent successful load returned;
\* failed, whether the most recent load raised; lazy_late, whether _get_config
\* called load_feature_flags after a load had succeeded; during, the
\* configurations loads installed since the current call began, with the one
\* in place when it began; swapped, whether a load succeeded between two
\* names of the current call
NoRun == [pc |-> "idle", i |-> 0, acc |-> FALSE, names |-> <<>>]
NoGood == [loaded |-> FALSE]
NoHist == [last_good |-> NoGood, failed |-> FALSE, lazy_late |-> FALSE,
           during |-> {}, swapped |-> FALSE]

Self == [config |-> config, dev_mode |-> dev_mode]

----------------------------------------------------------------------------
(* The state machine: a caller issues one call at a time on the instance *)

Init ==
    /\ config \in Configs
    /\ dev_mode \in {DevModeOf(e) : e \in EnvValues}
    /\ call = Idle
    /\ ret = NoRet
    /\ printed = <<>>
    /\ first = NoFirst
    /\ global_config = PyNone
    /\ run = NoRun
    /\ hist = NoHist

Returns(c, r) ==
    /\ call.op = "idle"
    /\ call' = c
    /\ ret' = r
    /\ printed' = r.out
    /\ UNCHANGED <<config, dev_mode>>
    /\ UNCHANGED module_vars

\* FeatureFlagConfig(config) constructed again while FFXL_DEV_MODE is e
NewInstance ==
    \E e \in EnvValues :
        /\ call.op = "idle"
        /\ dev_mode' = DevModeOf(e)
        /\ UNCHANGED <<config, call, ret, printed, first>>
        /\ UNCHANGED module_vars

IsFeatureEnabled ==
    \E name \in FeatureNames, user \in Users :
        LET r == is_feature_enabled(Self, name, user) IN
        /\ Returns([op |-> "is_feature_enabled", name |-> name, user |-> user], r)
        /\ first' = IF first.op = "none" /\ r.exc = "" /\ ~dev_mode
                    THEN [op |-> "is_feature_enabled", name |-> name,
                          user_id |-> ExtractUserId(user), val |-> r.val]
                    ELSE first

IsAnyFeatureEnabled ==
    \E names \in NameSeqs, user \in Users :
        /\ Returns([op |-> "is_any_feature_enabled", names |-> names, user |-> user],
                   is_any_feature_enabled(Self, names, user))
        /\ UNCHANGED first

AreAllFeaturesEnabled ==
    \E names \in NameSeqs, user \in Users :
        /\ Returns([op |-> "are_all_features_enabled", names |-> names, user |-> user],
                   are_all_features_enabled(Self, names, user))
        /\ UNCHANGED first

GetEnabledFeatures ==
    \E user \in Users :
        /\ Returns([op |-> "get_enabled_features", user |-> user],
                   get_enabled_features(Self, user))
        /\ UNCHANGED first

GetFeatureFlags ==
    \E names \in NameSeqs, user \in Users :
        /\ Returns([op |-> "get_feature_flags", names |-> names, user |-> user],
                   get_feature_flags(Self, names, user))
        /\ UNCHANGED first

FeatureExists ==
    \E name \in FeatureNames :
        /\ Returns([op |-> "feature_exists", name |-> name], feature_exists(Self, name))
        /\ UNCHANGED first

GetAllFeatureNames ==
    /\ Returns([op |-> "get_all_feature_names"], get_all_feature_names(Self))
    /\ UNCHANGED first

GetFeatureConfig ==
    \E name \in FeatureNames :
        /\ Returns([op |-> "get_feature_config", name |-> name], get_feature_config(Self, name))
        /\ UNCHANGED first

\* the caller takes the returned value and is ready for its next call
CallerContinues ==
    /\ call.op # "idle"
    /\ call' = Idle
    /\ ret' = NoRet
    /\ printed' = <<>>
    /\ UNCHANGED <<config, dev_mode, first>>
    /\ UNCHANGED module_vars

Next ==
    \/ NewInstance
    \/ IsFeatureEnabled
    \/ IsAnyFeatureEnabled
    \/ AreAllFeaturesEnabled
    \/ GetEnabledFeatures
    \/ GetFeatureFlags
    \/ FeatureExists
    \/ GetAllFeatureNames
    \/ GetFeatureConfig
    \/ CallerContinues

Spec == Init /\ [][Next]_vars

TypeOK ==
    /\ config \in Configs
    /\ dev_mode \in BOOLEAN
    /\ ret.exc \in {"", "TypeError", "AttributeError"}

----------------------------------------------------------------------------
(* Module level: load_feature_flags and the global configuration *)

\* a YAML date, which yaml.safe_load turns into a datetime.date
YamlDate == [kind |-> "date", iso |-> "2024-01-01"]

\* the configurations that loads install; ConfigB is one that only a YAML
\* file can hold, its feature b carries a date
ConfigA == PyDict(<< <<"features", PyDict(<< <<"a", [enabled |-> TRUE]>>,
                                             <<"b", [enabled |-> FALSE]>> >>)>> >>)
ConfigB == PyDict(<< <<"features",
                     PyDict(<< <<"b", [enabled |-> TRUE, since |-> YamlDate]>>,
                               <<"a", [onlyForUserIds |-> <<"u1">>]>> >>)>> >>)
LoadedConfigs == {ConfigA, ConfigB}

\* the configurations that FFXL_CONFIG, a JSON text, can hold
JsonConfigs == {ConfigA}

\* values of the FFXL_CONFIG environment variable: unset, text that is not
\* JSON, or the JSON text of a configuration
Unset == [text |-> "unset"]
NotJson == [text |-> "not json"]
JsonText(c) == [text |-> "json", value |-> c]
EnvConfigs == {Unset, NotJson} \cup {JsonText(c) : c \in JsonConfigs}

\* a path of the file system: no file, a file that is not YAML, or the YAML
\* text of a configuration
Missing == [text |-> "missing"]
NotYaml == [text |-> "not yaml"]
YamlText(c) == [text |-> "yaml", value |-> c]

DefaultPath == "./feature-flags.yaml"
CustomPath == "custom.yaml"
Paths == {DefaultPath, CustomPath}
FileSystems ==
    {(DefaultPath :> d) @@ (CustomPath :> c) :
        d \in {Missing, YamlText(ConfigA)},
        c \in {Missing, NotYaml, YamlText(ConfigB)}}

\* the process environment read by a load; development mode is on
Environs ==
    [FFXL_FILE : {"", CustomPath}, FEATURE_FLAGS_FILE : {"", CustomPath},
     FFXL_CONFIG : EnvConfigs, FFXL_DEV_MODE : {"true"}]

\* the file_path argument, NoneId for None
FilePaths == {NoneId, CustomPath}

\* bool(os.getenv('FFXL_CONFIG'))
EnvConfigSet(t) == t.text # "unset"

\* json.loads
json_loads(t) ==
    IF t.text = "json" THEN Ok(t.value, <<>>) ELSE Raise("JSONDecodeError", <<>>)

\* yaml.safe_load of an existing file
yaml_safe_load(t) ==
    IF t.text = "yaml" THEN Ok(t.value, <<>>) ELSE Raise("YAMLError", <<>>)

\* FeatureFlagConfig(config) in the environment env
FeatureFlagConfig(cfg, env) == [config |-> cfg, dev_mode |-> DevModeOf(env.FFXL_DEV_MODE)]

\* file_path, FFXL_FILE, FEATURE_FLAGS_FILE or the default, in this order
ResolvePath(file_path, env) ==
    IF file_path # NoneId THEN file_path
    ELSE IF env.FFXL_FILE # "" THEN env.FFXL_FILE
    ELSE IF env.FEATURE_FLAGS_FILE # "" THEN env.FEATURE_FLAGS_FILE
    ELSE DefaultPath

\* _global_config is set to None before anything is read
load_feature_flags_ResetFirst(g, file_path, env, fs) ==
    LET path == ResolvePath(file_path, env)
        parsed == json_loads(env.FFXL_CONFIG)
    IN IF EnvConfigSet(env.FFXL_CONFIG) /\ parsed.exc = ""
       THEN [exc |-> "", val |-> parsed.val, global |-> FeatureFlagConfig(parsed.val, env)]
       ELSE IF fs[path].text = "missing"
       THEN [exc |-> "FileNotFoundError", global |-> PyNone]
       ELSE LET loaded == yaml_safe_load(fs[path])
            IN IF loaded.exc # "" THEN [exc |-> loaded.exc, global |-> PyNone]
               ELSE [exc |-> "", val |-> loaded.val,
                     global |-> FeatureFlagConfig(loaded.val, env)]

\* load_feature_flags with _global_config = g: the exception or the returned
\* configuration, and the _global_config it leaves
load_feature_flags(g, file_path, env, fs) ==
    LET path == ResolvePath(file_path, env)
        parsed == json_loads(env.FFXL_CONFIG)
    IN IF EnvConfigSet(env.FFXL_CONFIG) /\ parsed.exc = ""
       THEN [exc |-> "", val |-> parsed.val, global |-> FeatureFlagConfig(parsed.val, env)]
       ELSE IF fs[path].text = "missing"
       THEN [exc |-> "FileNotFoundError", global |-> g]
       ELSE LET loaded == yaml_safe_load(fs[path])
            IN IF loaded.exc # "" THEN [exc |-> loaded.exc, global |-> g]
               ELSE [exc |-> "", val |-> loaded.val,
                     global |-> FeatureFlagConfig(loaded.val, env)]

\* the keys of a feature entry whose value is a datetime.date
DateKeys == {"since"}

\* json.dumps accepts the entry: none of its values is a date
EntrySerializable(f) == DOMAIN f \cap DateKeys = {}

\* json.dumps(config) for a configuration a load returned
json_dumps(cfg) ==
    LET features == FeaturesOf(cfg).d
    IN IF \A i \in 1..Len(features) : EntrySerializable(features[i][2])
       THEN Ok(JsonText(cfg), <<>>)
       ELSE Raise("TypeError", <<>>)

\* load_feature_flags_as_string with _global_config = g: the load is made
\* first, so json.dumps raises with the loaded configuration in place
load_feature_flags_as_string(g, file_path, env, fs) ==
    LET r == load_feature_flags(g, file_path, env, fs)
    IN IF r.exc # "" THEN r
       ELSE LET text == json_dumps(r.val)
            IN IF text.exc # "" THEN [exc |-> text.exc, global |-> r.global]
               ELSE [exc |-> "", val |-> text.val, global |-> r.global]

----------------------------------------------------------------------------
(* Module level: the evaluation functions, _get_config().method(...) *)

ModuleUsers == {PyNone, [kind |-> "User", user_id |-> "u1"]}

ModuleCalls ==
    {[op |-> "is_feature_enabled", name |-> n, user |-> u] : n \in FeatureNames, u \in ModuleUsers}
    \cup {[op |-> o, names |-> ns, user |-> u] :
            o \in {"is_any_feature_enabled", "are_all_features_enabled", "get_feature_flags"},
            ns \in NameSeqs, u \in ModuleUsers}
    \cup {[op |-> "get_enabled_features", user |-> u] : u \in ModuleUsers}
    \cup {[op |-> o, name |-> n] : o \in {"feature_exists", "get_feature_config"},
                                  n \in FeatureNames}
    \cup {[op |-> "get_all_feature_names"]}

\* the functions that look a configuration up without evaluating a flag
InspectOps == {"feature_exists", "get_all_feature_names", "get_feature_config"}

\* the method of an inspecting call c on the instance self
Inspect(c, self) ==
    CASE c.op = "feature_exists"        -> feature_exists(self, c.name)
      [] c.op = "get_all_feature_names" -> get_all_feature_names(self)
      [] c.op = "get_feature_config"    -> get_feature_config(self, c.name)

Good(c) == [loaded |-> TRUE, config |-> c]

\* the receiver is re-read from _global_config for every name
BoundSelf_Reread(bound, current) == current

\* the receiver of the method call: the instance _get_config() returned,
\* whatever _global_config is by now
BoundSelf(bound, current) == bound

\* the value a method starts from, before any name is evaluated
InitialAcc(op) ==
    CASE op = "is_feature_enabled"       -> FALSE
      [] op = "is_any_feature_enabled"   -> FALSE
      [] op = "are_all_features_enabled" -> TRUE
      [] op = "get_enabled_features"     -> <<>>
      [] op = "get_feature_flags"        -> EmptyDict

\* the names a method goes through on the instance self
NamesOf(c, self) ==
    CASE c.op = "is_feature_enabled"   -> Ok(<<c.name>>, <<>>)
      [] c.op = "get_enabled_features" -> get_all_feature_names(self)
      [] c.op \in InspectOps           -> Ok(<<>>, <<>>)
      [] OTHER                         -> Ok(c.names, <<>>)

\* any() stops at the first true, all() at the first false
Stops(op, val) ==
    \/ op = "is_any_feature_enabled" /\ val
    \/ op = "are_all_features_enabled" /\ ~val

\* the method's value after the name evaluated to val
NextAcc(op, acc, name, val) ==
    CASE op = "is_feature_enabled"       -> val
      [] op = "is_any_feature_enabled"   -> val
      [] op = "are_all_features_enabled" -> val
      [] op = "get_enabled_features"     -> IF val THEN Append(acc, name) ELSE acc
      [] op = "get_feature_flags"        -> DictSet(acc, name, val)

\* the record of the loads after a load returned r
HistAfterLoad(r, lazy) ==
    [last_good |-> IF r.exc = "" THEN Good(r.val) ELSE hist.last_good,
     failed    |-> r.exc # "",
     lazy_late |-> hist.lazy_late \/ (lazy /\ hist.last_good.loaded),
     during    |-> IF r.exc = "" /\ run.pc # "idle" THEN hist.during \cup {r.val}
                   ELSE hist.during,
     swapped   |-> hist.swapped \/ (/\ r.exc = "" /\ run.pc = "running"
                                     /\ 1 < run.i /\ run.i <= Len(run.names))]

InitModule ==
    /\ config = PyNone
    /\ dev_mode = FALSE
    /\ call = Idle
    /\ ret = NoRet
    /\ printed = <<>>
    /\ first = NoFirst
    /\ global_config = PyNone
    /\ run = NoRun
    /\ hist = NoHist

\* a caller enters a module-level evaluation function
Invoke ==
    \E c \in ModuleCalls :
        /\ run.pc = "idle"
        /\ call' = c
        /\ run' = [run EXCEPT !.pc = "check"]
        /\ hist' = [hist EXCEPT !.during = IF global_config = PyNone THEN {}
                                           ELSE {global_config.config},
                                !.swapped = FALSE]
        /\ UNCHANGED <<config, dev_mode, ret, printed, first, global_config>>

\* _get_config: if _global_config is None
GetConfigCheck ==
    /\ run.pc = "check"
    /\ run' = [run EXCEPT !.pc = IF global_config = PyNone THEN "lazy" ELSE "return"]
    /\ UNCHANGED <<config, dev_mode, call, ret, printed, first, global_config, hist>>

\* _get_config: load_feature_flags()
GetConfigLazyLoad ==
    \E env \in Environs, fs \in FileSystems :
        LET r == load_feature_flags(global_config, NoneId, env, fs) IN
        /\ run.pc = "lazy"
        /\ global_config' = r.global
        /\ hist' = HistAfterLoad(r, TRUE)
        /\ IF r.exc # ""
           THEN /\ run' = [run EXCEPT !.pc = "done"]
                /\ ret' = Raise(r.exc, <<>>)
           ELSE /\ run' = [run EXCEPT !.pc = "return"]
                /\ ret' = ret
        /\ UNCHANGED <<config, dev_mode, call, printed, first>>

\* _get_config: return _global_config, the receiver of the method
GetConfigReturn ==
    LET self == global_config
        names == NamesOf(call, self)
    IN
    /\ run.pc = "return"
    /\ config' = self.config
    /\ dev_mode' = self.dev_mode
    /\ IF names.exc # ""
       THEN /\ run' = [run EXCEPT !.pc = "done"]
            /\ ret' = names
       ELSE IF call.op \in InspectOps
       THEN /\ run' = [run EXCEPT !.pc = "inspect"]
            /\ ret' = ret
       ELSE /\ run' = [pc |-> "running", i |-> 1, acc |-> InitialAcc(call.op),
                       names |-> names.val]
            /\ ret' = ret
    /\ UNCHANGED <<call, printed, first, global_config, hist>>

\* feature_exists, get_all_feature_names or get_feature_config runs on the
\* instance _get_config() returned
InspectConfig ==
    LET r == Inspect(call, BoundSelf(Self, global_config)) IN
    /\ run.pc = "inspect"
    /\ run' = [run EXCEPT !.pc = "done"]
    /\ ret' = r
    /\ UNCHANGED <<config, dev_mode, call, printed, first, global_config, hist>>

\* the method evaluates its next name, or returns after the last one
EvaluateName ==
    /\ run.pc = "running"
    /\ IF run.i > Len(run.names)
       THEN /\ run' = [run EXCEPT !.pc = "done"]
            /\ ret' = Ok(run.acc, printed)
            /\ printed' = printed
       ELSE LET self == BoundSelf(Self, global_config)
                name == run.names[run.i]
                r == is_feature_enabled(self, name, call.user)
            IN /\ printed' = printed \o r.out
               /\ IF r.exc # ""
                  THEN /\ run' = [run EXCEPT !.pc = "done"]
                       /\ ret' = Raise(r.exc, printed')
                  ELSE IF Stops(call.op, r.val)
                  THEN /\ run' = [run EXCEPT !.pc = "done"]
                       /\ ret' = Ok(r.val, printed')
                  ELSE /\ run' = [run EXCEPT !.i = @ + 1,
                                             !.acc = NextAcc(call.op, @, name, r.val)]
                       /\ ret' = ret
    /\ UNCHANGED <<config, dev_mode, call, first, global_config, hist>>

\* the caller takes the result of the module-level function
CallerResumes ==
    /\ run.pc = "done"
    /\ call' = Idle
    /\ ret' = NoRet
    /\ printed' = <<>>
    /\ config' = PyNone
    /\ dev_mode' = FALSE
    /\ run' = NoRun
    /\ hist' = [hist EXCEPT !.during = {}, !.swapped = FALSE]
    /\ UNCHANGED <<first, global_config>>

Loads ==
    \E file_path \in FilePaths, env \in Environs, fs \in FileSystems :
        LET r == load_feature_flags(global_config, file_path, env, fs) IN
        /\ global_config' = r.global
        /\ hist' = HistAfterLoad(r, FALSE)
        /\ UNCHANGED <<config, dev_mode, call, ret, printed, first, run>>

\* the caller calls load_feature_flags_as_string and gets the JSON text or
\* the exception; hist records the load_feature_flags the function made
LoadFeatureFlagsAsString ==
    \E file_path \in FilePaths, env \in Environs, fs \in FileSystems :
        LET r == load_feature_flags_as_string(global_config, file_path, env, fs)
            loaded == load_feature_flags(global_config, file_path, env, fs)
        IN
        /\ run.pc = "idle"
        /\ call' = [op |-> "load_feature_flags_as_string", file_path |-> file_path]
        /\ global_config' = r.global
        /\ hist' = HistAfterLoad(loaded, FALSE)
        /\ ret' = IF r.exc # "" THEN Raise(r.exc, <<>>) ELSE Ok(r.val, <<>>)
        /\ run' = [run EXCEPT !.pc = "done"]
        /\ UNCHANGED <<config, dev_mode, printed, first>>

\* load_feature_flags called by another thread, at any point of a call
LoadFeatureFlags == Loads

\* load_feature_flags called between two module-level calls
LoadFeatureFlagsBetweenCalls == run.pc = "idle" /\ Loads

NextReload ==
    \/ Invoke
    \/ GetConfigCheck
    \/ GetConfigLazyLoad
    \/ GetConfigReturn
    \/ EvaluateName
    \/ InspectConfig
    \/ LoadFeatureFlagsAsString
    \/ CallerResumes
    \/ LoadFeatureFlags

\* module-level calls of one caller while another thread reloads
SpecReload == InitModule /\ [][NextReload]_vars

NextLoads ==
    \/ Invoke
    \/ GetConfigCheck
    \/ GetConfigLazyLoad
    \/ GetConfigReturn
    \/ EvaluateName
    \/ InspectConfig
    \/ LoadFeatureFlagsAsString
    \/ CallerResumes
    \/ LoadFeatureFlagsBetweenCalls

\* loads and module-level calls made one after the other
SpecLoads == InitModule /\ [][NextLoads]_vars

ModuleTypeOK ==
    /\ run.pc \in {"idle", "check", "lazy", "return", "running", "inspect", "done"}
    /\ global_config = PyNone \/ global_config.config \in LoadedConfigs
    /\ hist.during \subseteq LoadedConfigs

----------------------------------------------------------------------------
(* Vocabulary of the properties *)

\* the configuration is a mapping whose features, when given, is a mapping
HasFeatureMap ==
    /\ config.kind = "dict"
    /\ HasKey(config.d, "features") => Lookup(config.d, "features").kind = "dict"

FeatureMap == IF HasKey(config.d, "features") THEN Lookup(config.d, "features").d ELSE <<>>

Defined(name) == HasFeatureMap /\ \E i \in 1..Len(FeatureMap) : FeatureMap[i][1] = name

Entry(name) == Lookup(FeatureMap, name)

HasAllowList(f) == "onlyForUserIds" \in DOMAIN f /\ f.onlyForUserIds # <<>>

\* the user id the caller supplied, NoneId when it supplied none
SuppliedId(user) ==
    IF user.kind = "User" THEN user.user_id
    ELSE IF user.kind = "dict" /\ "user_id" \in DOMAIN user.d THEN user.d.user_id
    ELSE NoneId

\* the environment the caller put in its context, "" when it gave none
ContextEnvironment(user) ==
    IF user.kind = "dict" /\ "environment" \in DOMAIN user.d THEN user.d.environment ELSE ""

Returned(op) == call.op = op

\* a single check on a defined feature has returned
Checked == Returned("is_feature_enabled") /\ Defined(call.name)

\* what a single check of name n for user u returns on the current instance
Single(n, u) == is_feature_enabled(Self, n, u)

\* the names of a sequence, each once, in the order of their first occurrence
RECURSIVE Distinct(_)
Distinct(names) ==
    IF names = <<>> THEN <<>>
    ELSE LET init == Distinct(SubSeq(names, 1, Len(names) - 1))
             n == names[Len(names)]
         IN IF \E i \in 1..Len(init) : init[i] = n THEN init ELSE Append(init, n)

----------------------------------------------------------------------------
(* Properties *)

\* C1: for a feature with a non-empty onlyForUserIds, is_feature_enabled
\* returns true exactly when the supplied user id is in the list, and false
\* when no user id is supplied, whatever enabled, environments and rollout are.
AllowListOverride ==
    (Checked /\ HasAllowList(Entry(call.name))) =>
        /\ ret.exc = ""
        /\ ret.val = (/\ SuppliedId(call.user) # NoneId
                      /\ \E i \in 1..Len(Entry(call.name).onlyForUserIds) :
                            Entry(call.name).onlyForUserIds[i] = SuppliedId(call.user))

\* a listed user, given as a dict, is enabled although enabled is false and
\* the rollout percentage is 0
AllowListOverrideWitness ==
    /\ Checked
    /\ Entry(call.name) = [enabled |-> FALSE, onlyForUserIds |-> <<"u1">>,
                           rollout |-> [percentage |-> 0]]
    /\ call.user = [kind |-> "dict", d |-> [user_id |-> "u1"]]
    /\ ret.exc = "" /\ ret.val = TRUE

\* C2: for a name that is not a key of the features mapping, is_feature_enabled
\* returns false for every user, feature_exists returns false, and neither raises.
UnknownFeatureSafety ==
    ((Returned("is_feature_enabled") \/ Returned("feature_exists"))
        /\ HasFeatureMap /\ ~Defined(call.name)) =>
        /\ ret.exc = ""
        /\ ret.val = FALSE

\* an unknown name checked for a user on a configuration that defines another
\* feature
UnknownFeatureSafetyWitness ==
    /\ Returned("is_feature_enabled")
    /\ HasFeatureMap /\ Defined("a") /\ ~Defined(call.name)
    /\ call.user = [kind |-> "User", user_id |-> "u1"]
    /\ ret.exc = "" /\ ret.val = FALSE

\* C3: for a feature with a rollout rule and no non-empty allow-list,
\* is_feature_enabled without a user id returns false, whatever enabled and
\* the percentage are.
RolloutFailClosed ==
    (Checked /\ "rollout" \in DOMAIN Entry(call.name) /\ ~HasAllowList(Entry(call.name))
        /\ SuppliedId(call.user) = NoneId) =>
        /\ ret.exc = ""
        /\ ret.val = FALSE

\* C4: a feature restricted to staging and production, without a non-empty
\* allow-list, is disabled when the environment of the caller's context is dev.
EnvironmentGating ==
    (Checked /\ "environments" \in DOMAIN Entry(call.name)
        /\ Entry(call.name).environments = <<"staging", "production">>
        /\ ~HasAllowList(Entry(call.name))
        /\ ContextEnvironment(call.user) = "dev") =>
        /\ ret.exc = ""
        /\ ret.val = FALSE

\* C5: with a rollout rule and no allow-list or environment restriction,
\* percentage 0 disables the feature for every user and percentage 100 enables
\* it for every user with a known id, independently of enabled.
BoundaryPercentages ==
    (Checked /\ "rollout" \in DOMAIN Entry(call.name) /\ ~HasAllowList(Entry(call.name))
        /\ "environments" \notin DOMAIN Entry(call.name)) =>
        /\ ret.exc = ""
        /\ Entry(call.name).rollout.percentage = 0 => ret.val = FALSE
        /\ (Entry(call.name).rollout.percentage = 100 /\ SuppliedId(call.user) # NoneId)
              => ret.val = TRUE

\* C6: for a feature with onlyForUserIds absent or empty, no environments and
\* no rollout, is_feature_enabled returns enabled for every user, false when
\* enabled is absent.
GlobalFlagBranch ==
    (Checked /\ ~HasAllowList(Entry(call.name))
        /\ "environments" \notin DOMAIN Entry(call.name)
        /\ "rollout" \notin DOMAIN Entry(call.name)) =>
        /\ ret.exc = ""
        /\ ret.val = IF "enabled" \in DOMAIN Entry(call.name)
                     THEN Entry(call.name).enabled ELSE FALSE

\* an empty allow-list leaves the decision to enabled, also for a user that
\* is given
GlobalFlagBranchWitness ==
    /\ Checked
    /\ Entry(call.name) = [enabled |-> TRUE, onlyForUserIds |-> <<>>]
    /\ call.user = [kind |-> "User", user_id |-> "u2"]
    /\ ret.exc = "" /\ ret.val = TRUE

\* C7: get_feature_flags(names, user) maps exactly the names of the sequence,
\* in input order (a repeated name keeps its first place), each to
\* is_feature_enabled(name, user).
BatchConsistency ==
    (Returned("get_feature_flags") /\ HasFeatureMap) =>
        /\ ret.exc = ""
        /\ Keys(ret.val) = Distinct(call.names)
        /\ \A i \in 1..Len(ret.val) :
              ret.val[i][2] = Single(ret.val[i][1], call.user).val

\* an unknown name before an allow-listed one, for the listed user
BatchConsistencyWitness ==
    /\ Returned("get_feature_flags")
    /\ HasFeatureMap /\ Defined("b") /\ HasAllowList(Entry("b"))
    /\ call.names = <<"c", "b">>
    /\ SuppliedId(call.user) = "u1"
    /\ ret.exc = "" /\ ret.val = << <<"c", FALSE>>, <<"b", TRUE>> >>

\* C8: is_any_feature_enabled is true iff some name evaluates true and
\* are_all_features_enabled is true iff every name does; so the empty sequence
\* gives false and true, and an unknown name makes all-of false.
AggregateFolds ==
    /\ (Returned("is_any_feature_enabled") /\ HasFeatureMap) =>
          /\ ret.exc = ""
          /\ ret.val = \E i \in 1..Len(call.names) : Single(call.names[i], call.user).val
    /\ (Returned("are_all_features_enabled") /\ HasFeatureMap) =>
          /\ ret.exc = ""
          /\ ret.val = \A i \in 1..Len(call.names) : Single(call.names[i], call.user).val

\* any-of is true on a sequence whose first name is disabled and whose second
\* is enabled
AggregateFoldsWitness ==
    /\ Returned("is_any_feature_enabled")
    /\ HasFeatureMap
    /\ Len(call.names) = 2
    /\ ~Single(call.names[1], call.user).val
    /\ Single(call.names[2], call.user).val
    /\ ret.exc = "" /\ ret.val = TRUE

\* C9: get_enabled_features(user) is the sequence of the configuration's
\* feature names, in the order they are defined, for which
\* is_feature_enabled(name, user) is true.
EnabledFeaturesInOrder ==
    (Returned("get_enabled_features") /\ HasFeatureMap) =>
        /\ ret.exc = ""
        /\ ret.val = SelectSeq(Keys(FeatureMap), LAMBDA n : Single(n, call.user).val)

\* both features of a configuration that defines b before a are enabled
EnabledFeaturesInOrderWitness ==
    /\ Returned("get_enabled_features")
    /\ HasFeatureMap
    /\ Keys(FeatureMap) = <<"b", "a">>
    /\ ret.exc = "" /\ ret.val = <<"b", "a">>

\* C10: on one configuration, is_feature_enabled for a feature name and user
\* id returns what the first such check made with logging off returned,
\* whatever calls came between and whether logging is on.
Determinism ==
    (Returned("is_feature_enabled") /\ first.op # "none" /\ ret.exc = ""
        /\ call.name = first.name /\ SuppliedId(call.user) = first.user_id) =>
        ret.val = first.val

\* the check is repeated with logging on, the user given in the other form
DeterminismWitness ==
    /\ Returned("is_feature_enabled")
    /\ first.op # "none"
    /\ call.name = first.name /\ SuppliedId(call.user) = first.user_id
    /\ first.user_id = "u1" /\ call.user.kind = "dict"
    /\ dev_mode /\ printed # <<>>
    /\ Defined(call.name) /\ ~HasAllowList(Entry(call.name))
    /\ ret.exc = "" /\ ret.val = TRUE

\* the value the method of call c returns on an instance holding cfg
WholeOn(c, cfg) ==
    LET self == [config |-> cfg, dev_mode |-> FALSE] IN
    CASE c.op = "is_feature_enabled"       -> is_feature_enabled(self, c.name, c.user).val
      [] c.op = "is_any_feature_enabled"   -> is_any_feature_enabled(self, c.names, c.user).val
      [] c.op = "are_all_features_enabled" -> are_all_features_enabled(self, c.names, c.user).val
      [] c.op = "get_enabled_features"     -> get_enabled_features(self, c.user).val
      [] c.op = "get_feature_flags"        -> get_feature_flags(self, c.names, c.user).val
      [] c.op \in InspectOps               -> Inspect(c, self).val

\* the module-level functions that go through _get_config
ModuleOps == {c.op : c \in ModuleCalls}

BatchOps == {"is_any_feature_enabled", "are_all_features_enabled",
             "get_enabled_features", "get_feature_flags"}

\* C11: a module-level batch query that runs while load_feature_flags replaces
\* the global configuration returns what the whole query returns on one of
\* the configurations in place during the call, the old one or a new one,
\* never a mixture.
SnapshotScoping ==
    (run.pc = "done" /\ call.op \in BatchOps /\ ret.exc = "") =>
        \E c \in hist.during : ret.val = WholeOn(call, c)

\* get_feature_flags of two names returns the old configuration's flags
\* although a load installed a configuration with other flags between the
\* two names
SnapshotScopingWitness ==
    /\ run.pc = "done"
    /\ call.op = "get_feature_flags" /\ call.names = <<"a", "b">>
    /\ hist.swapped
    /\ global_config.config # config
    /\ ret.exc = ""
    /\ ret.val = WholeOn(call, config)
    /\ ret.val # WholeOn(call, global_config.config)

\* C12: the global configuration is the one of the most recent successful
\* load, none while no load has succeeded, so a load that raises leaves it
\* unchanged; a module-level evaluation returns the result on that
\* configuration and raises only when no load has succeeded; and a lazy load
\* is attempted only while no load has succeeded.  The loads are the calls of
\* load_feature_flags, those load_feature_flags_as_string makes included.
FailedReloadKeepsConfig ==
    /\ IF hist.last_good.loaded
       THEN global_config # PyNone /\ global_config.config = hist.last_good.config
       ELSE global_config = PyNone
    /\ ~hist.lazy_late
    /\ (run.pc = "done" /\ call.op \in ModuleOps) =>
          IF ret.exc = ""
          THEN hist.last_good.loaded /\ ret.val = WholeOn(call, hist.last_good.config)
          ELSE ~hist.last_good.loaded

\* an evaluation made after a load that raised returns the flags of the
\* configuration loaded before it
FailedReloadKeepsConfigWitness ==
    /\ run.pc = "done"
    /\ hist.failed /\ hist.last_good.loaded
    /\ call.op = "get_feature_flags" /\ Len(call.names) = 2
    /\ ret.exc = ""
    /\ ret.val = WholeOn(call, hist.last_good.config)

====
